---- MODULE Spec2Model ----
(***************************************************************************)
(* SecureVault: the web application's vault store (PasswordVault, app.js), *)
(* the crypto envelope (CryptoUtils, crypto.js) and the extension's        *)
(* background coordinator (BackgroundService, background.js).              *)
(*                                                                         *)
(* JavaScript runs one task at a time: an action below is one task, from   *)
(* the start of a handler (or the resumption of a suspended one) to its    *)
(* next suspension on a WebCrypto or chrome.storage promise.  Awaiting an  *)
(* already settled promise only yields to the microtask queue, so it does  *)
(* not end the action.                                                     *)
(*                                                                         *)
(* Strings that are searched or case-converted are sequences of one-       *)
(* character strings; optional values (null / undefined / absent key) are  *)
(* sequences of length 0 or 1.                                             *)
(***************************************************************************)
EXTENDS Naturals, Sequences, FiniteSets, TLC

VARIABLES
    currentUser,      \* PasswordVault.currentUser
    userPassword,     \* PasswordVault.userPassword
    entries,          \* PasswordVault.entries
    editingEntryId,   \* PasswordVault.editingEntryId
    users,            \* localStorage 'users'
    savedUser,        \* localStorage 'currentUser'
    vaultData,        \* localStorage 'entries_<email>'
    appTasks,         \* handlers of the page suspended on a crypto promise
    clock,            \* Date.now()
    rng,              \* number of values drawn from crypto.getRandomValues
    chan,             \* VAULT_UPDATE messages on their way to the background
    isUserLoggedIn,   \* BackgroundService.isUserLoggedIn
    userEmail,        \* BackgroundService.userEmail
    passwordData,     \* BackgroundService.passwordData
    storedStatus,     \* chrome.storage.local 'userStatus'
    storedData,       \* chrome.storage.local 'passwordData'
    bgTasks,          \* handlers of the background suspended on a promise
    reply,            \* the last value the background passed to sendResponse
    tabOut,           \* the last message the background sent to a tab
    lastAuth,         \* history: the last of login / logout the page completed
    lastEvent,        \* history: the last login / logout event the worker handled
    sealed,           \* history: the list and password of the envelope stored
    ops               \* number of operations issued so far

appVars == <<currentUser, userPassword, entries, editingEntryId, appTasks,
            lastAuth>>
diskVars == <<users, savedUser, vaultData, sealed>>
bgVars == <<isUserLoggedIn, userEmail, passwordData, storedStatus, storedData,
            bgTasks, reply, tabOut, lastEvent>>
vars == <<currentUser, userPassword, entries, editingEntryId, users, savedUser,
          vaultData, appTasks, clock, rng, chan, isUserLoggedIn, userEmail,
          passwordData, storedStatus, storedData, bgTasks, reply, tabOut,
          lastAuth, lastEvent, sealed, ops>>

---------------------------------------------------------------------------
(* Bounds of the model. *)

MaxOps == 2              \* operations in a run of the whole system
MaxVaultOps == 3         \* operations in a run of the page alone
MaxEntryOps == 3         \* mutations in one session of the page alone
MaxAddOps == 3           \* submissions of the add form in one session
MaxRegisterOps == 3      \* submissions of the registration form
MaxAccountOps == 3       \* submissions of the registration and login forms
MaxCorruptOps == 3       \* logins and replacements of stored hashes
MaxServeOps == 3         \* operations of a session with the extension
MaxSessionOps == 3       \* logins and logouts of a page with the extension
MaxStoreOps == 2         \* notifications to a worker that has restored its state
MaxRequestOps == 2       \* messages of every kind to such a worker
MaxFaultOps == 2         \* mutations in a session whose storage may fail
MaxReloadedOps == 2      \* operations of the page after a reload
MaxCoordinatorOps == 4   \* operations in a run of the worker alone
MaxQueryOps == 3         \* operations in a shorter run of the worker alone
MaxTwiceOps == 3         \* notifications that arrive twice
MaxMatchOps == 3         \* requests of tabs in a run of the lookup
MaxClock == 2            \* Date.now() ranges over 1..MaxClock
MaxTasks == 2            \* suspended handlers per context
MaxChan == 2             \* messages on their way to the worker

---------------------------------------------------------------------------
(* Optional values and strings. *)

None == <<>>
Some(x) == <<x>>

Uppers == <<"A","B","C","D","E","F","G","H","I","J","K","L","M",
            "N","O","P","Q","R","S","T","U","V","W","X","Y","Z">>
Lowers == <<"a","b","c","d","e","f","g","h","i","j","k","l","m",
            "n","o","p","q","r","s","t","u","v","w","x","y","z">>

toLowerChar(c) ==
    IF \E i \in 1..Len(Uppers) : Uppers[i] = c
    THEN Lowers[CHOOSE i \in 1..Len(Uppers) : Uppers[i] = c]
    ELSE c

\* A conversion that leaves the case of every character as it is.
toLowerCaseKept(s) == s

toUpperChar(c) ==
    IF \E i \in 1..Len(Lowers) : Lowers[i] = c
    THEN Uppers[CHOOSE i \in 1..Len(Lowers) : Lowers[i] = c]
    ELSE c

toLowerCase(s) == [i \in 1..Len(s) |-> toLowerChar(s[i])]
toUpperCase(s) == [i \in 1..Len(s) |-> toUpperChar(s[i])]

\* String.prototype.includes: t occurs in s (the empty string always does).
includes(s, t) ==
    \E i \in 0..(Len(s) - Len(t)) : SubSeq(s, i + 1, i + Len(t)) = t

\* String.prototype.replace with a string pattern: the FIRST occurrence of
\* pat, wherever it is, is replaced by the empty string.
replaceFirst(s, pat) ==
    IF includes(s, pat)
    THEN LET i == CHOOSE k \in 0..(Len(s) - Len(pat)) :
                     /\ SubSeq(s, k + 1, k + Len(pat)) = pat
                     /\ \A j \in 0..(k - 1) : SubSeq(s, j + 1, j + Len(pat)) # pat
         IN SubSeq(s, 1, i) \o SubSeq(s, i + Len(pat) + 1, Len(s))
    ELSE s

---------------------------------------------------------------------------
(* The accounts and the form inputs of the model. *)

EmailA == "a@x.com"
EmailB == "b@x.com"
Emails == {EmailA, EmailB}

\* Emails that are not registered at the start.
EmailC == "c@x.com"
EmailD == "d@x.com"


MasterPassword(e) == IF e = EmailA THEN "correcthorse1" ELSE "batterystaple2"
MasterPasswords == {MasterPassword(e) : e \in Emails}

\* What is typed into the login form: the right password of either account,
\* a wrong password, an email that is not registered.
LoginInputs ==
    {<<e, MasterPassword(e)>> : e \in Emails}
    \cup {<<EmailA, MasterPassword(EmailB)>>,
          <<"nobody@x.com", MasterPassword(EmailA)>>}

Git == <<"g","i","t">>
GIT == <<"G","I","T">>
Hub == <<"h","u","b">>
Lab == <<"l","a","b">>
PlatformInputs == {Git, GIT, Hub, Lab, <<>>}
UsernameInputs == {"bob", ""}
SecretInputs == {"p@ss", ""}
\* What is typed into a form: every platform with both other fields filled, and
\* one form for each of the other fields left empty.
FormInputs ==
    {f \in PlatformInputs \X UsernameInputs \X SecretInputs :
        (f[2] = "" \/ f[3] = "") => (f[1] = Git /\ f[2] # f[3])}

---------------------------------------------------------------------------
(* CryptoUtils.  A key or digest is the symbolic term of the inputs it was  *)
(* derived from: two derivations agree exactly when password and salt do.   *)
(* An envelope is the decoded salt || iv || payload; the base64 framing is  *)
(* a bijection on it.                                                       *)

\* TextEncoder.encode(password): null is encoded as the text "null".
encode(password) == IF password = None THEN "null" ELSE password[1]

PBKDF2(passwordBuffer, salt) == <<passwordBuffer, salt>>

deriveKey(password, salt) ==
    [name |-> "AES-GCM", bits |-> PBKDF2(encode(password), salt)]

\* AES-GCM under key and iv: the ciphertext with its tag, which binds key,
\* iv and ciphertext.
aesGcm(key, iv, data) ==
    [key |-> key, iv |-> iv, data |-> data, tag |-> <<key, iv, data>>]

\* An encrypt that derives the key from the iv in place of the salt.
encryptKeyOfIv(plaintext, password, salt, iv) ==
    [salt |-> salt, iv |-> iv,
     payload |-> aesGcm(deriveKey(password, iv), iv, plaintext)]

\* An encrypt that seals under a constant salt and iv.
encryptFixedNonce(plaintext, password, salt, iv) ==
    [salt |-> 0, iv |-> 0,
     payload |-> aesGcm(deriveKey(password, 0), 0, plaintext)]

encrypt(plaintext, password, salt, iv) ==
    [salt |-> salt, iv |-> iv,
     payload |-> aesGcm(deriveKey(password, salt), iv, plaintext)]

\* A decrypt that opens every envelope, whatever the password.
decryptAny(encryptedData, password) ==
    [ok |-> TRUE, text |-> encryptedData.payload.data]

\* A decrypt that does not verify the tag.
decryptUnauthenticated(encryptedData, password) ==
    LET key == deriveKey(password, encryptedData.salt)
        c == encryptedData.payload
    IN IF c.key = key /\ c.iv = encryptedData.iv
       THEN [ok |-> TRUE, text |-> c.data]
       ELSE [ok |-> FALSE, text |-> <<>>]

\* crypto.subtle.decrypt rejects unless key and iv are those of the seal and
\* the tag is the one of the ciphertext; every rejection ends in the same
\* Error of the catch block.
decrypt(encryptedData, password) ==
    LET key == deriveKey(password, encryptedData.salt)
        c == encryptedData.payload
    IN IF c.key = key /\ c.iv = encryptedData.iv /\ c.tag = <<key, c.iv, c.data>>
       THEN [ok |-> TRUE, text |-> c.data]
       ELSE [ok |-> FALSE, text |-> <<>>]

hashPassword(password, salt) ==
    [salt |-> salt, hash |-> PBKDF2(encode(password), salt)]

\* A verification that accepts every password.
verifyPasswordAny(password, storedHash) == TRUE

\* A verification that hashes the candidate without the salt of the record.
verifyPasswordSaltless(password, storedHash) ==
    hashPassword(password, 0) = storedHash

\* Stored values that are not the hash of a registration: a text that is
\* not base64, and a hash cut after its salt.
NotBase64 == [text |-> "%"]
Truncated(storedHash) == [salt |-> storedHash.salt]

\* atob(storedHash) and the slice of the salt: an InvalidCharacterError for
\* what is not base64, else the bytes, of which the first are the salt.
atob(storedHash) ==
    IF "salt" \in DOMAIN storedHash
    THEN [ok |-> TRUE, salt |-> storedHash.salt]
    ELSE [ok |-> FALSE, salt |-> 0]

\* A verification that compares only as many bytes as the stored value has.
verifyPasswordPrefix(password, storedHash) ==
    /\ atob(storedHash).ok
    /\ \A f \in DOMAIN storedHash :
          hashPassword(password, atob(storedHash).salt)[f] = storedHash[f]

\* The catch block turns the error of atob into false; the comparison is of
\* the two strings as wholes.
verifyPassword(password, storedHash) ==
    /\ atob(storedHash).ok
    /\ DOMAIN storedHash = {"salt", "hash"}
    /\ hashPassword(password, atob(storedHash).salt) = storedHash

---------------------------------------------------------------------------
(* Entries and their JSON text. *)

JSONstringify(list) ==
    [i \in 1..Len(list) |->
        <<list[i].id, list[i].platform, list[i].username, list[i].password,
          list[i].createdAt, list[i].updatedAt>>]

\* A parse that yields the records in the opposite order.
JSONparseReversed(text) ==
    [i \in 1..Len(text) |->
        [id |-> text[Len(text) + 1 - i][1],
         platform |-> text[Len(text) + 1 - i][2],
         username |-> text[Len(text) + 1 - i][3],
         password |-> text[Len(text) + 1 - i][4],
         createdAt |-> text[Len(text) + 1 - i][5],
         updatedAt |-> text[Len(text) + 1 - i][6]]]

JSONparse(text) ==
    [i \in 1..Len(text) |->
        [id |-> text[i][1], platform |-> text[i][2], username |-> text[i][3],
         password |-> text[i][4], createdAt |-> text[i][5],
         updatedAt |-> text[i][6]]]

capitalizePlatform(platform) ==
    IF platform = <<>> THEN <<>>
    ELSE <<toUpperChar(platform[1])>> \o toLowerCase(Tail(platform))

\* entries.findIndex(entry => entry.id === id); 0 stands for -1.
findIndex(list, id) ==
    IF \E i \in 1..Len(list) : Some(list[i].id) = id
    THEN CHOOSE i \in 1..Len(list) :
            /\ Some(list[i].id) = id
            /\ \A j \in 1..(i - 1) : Some(list[j].id) # id
    ELSE 0

\* entries.filter(entry => entry.id !== entryId)
RECURSIVE filterOut(_, _)
filterOut(list, entryId) ==
    IF list = <<>> THEN <<>>
    ELSE IF Head(list).id = entryId THEN filterOut(Tail(list), entryId)
    ELSE <<Head(list)>> \o filterOut(Tail(list), entryId)

---------------------------------------------------------------------------
(* The state after construction: two registered accounts; account B has    *)
(* saved one entry at time 0, in an earlier session, and logged out.       *)

UserA == [email |-> EmailA, createdAt |-> 0,
          hashedPassword |-> hashPassword(Some(MasterPassword(EmailA)), 0)]
UserB == [email |-> EmailB, createdAt |-> 0,
          hashedPassword |-> hashPassword(Some(MasterPassword(EmailB)), 1)]

EarlierEntry == [id |-> 0, platform |-> capitalizePlatform(Hub),
                 username |-> "bob", password |-> "p@ss", createdAt |-> 0,
                 updatedAt |-> None]

Installed ==
    /\ editingEntryId = None
    /\ users = (EmailA :> UserA) @@ (EmailB :> UserB)
    /\ vaultData = (EmailA :> None) @@ (EmailC :> None) @@ (EmailD :> None) @@
                   (EmailB :> Some(encrypt(JSONstringify(<<EarlierEntry>>),
                                           Some(MasterPassword(EmailB)), 2, 3)))
    /\ clock = 1
    /\ rng = 4
    /\ chan = <<>>
    /\ isUserLoggedIn = FALSE
    /\ userEmail = None
    /\ passwordData = <<>>
    /\ storedStatus = None
    /\ storedData = None
    /\ bgTasks = {[kind |-> "userStatus", value |-> None]}
    /\ reply = None
    /\ tabOut = None
    /\ lastEvent = "none"
    /\ sealed = (EmailA :> None) @@ (EmailC :> None) @@ (EmailD :> None) @@
                (EmailB :> Some([list |-> <<EarlierEntry>>,
                                 password |-> Some(MasterPassword(EmailB))]))
    /\ appTasks = {}
    /\ ops = 0

Init ==
    /\ Installed
    /\ currentUser = None
    /\ userPassword = None
    /\ entries = <<>>
    /\ savedUser = None
    /\ lastAuth = "none"

---------------------------------------------------------------------------
(* PasswordVault (app.js).  The actions leave `ops` to the next-state       *)
(* relations at the end of the module.                                      *)

\* notifyExtension: the message posted for the extension.
VaultUpdate(action, data) ==
    [type |-> "VAULT_UPDATE", action |-> action, data |-> data]

notifyExtension(action, data) == chan' = Append(chan, VaultUpdate(action, data))

\* A payload that carries the password along.
loginDataWithPassword(email, password) ==
    [email |-> email, password |-> password[1]]

\* The payload of the login notification.
loginData(email, password) == [email |-> email]

\* Date.now(): time has advanced since it was last read, or has not.
DateNow(now) == now \in {clock, clock + 1} /\ now <= MaxClock

\* What is typed into the registration form: two new emails, one of them
\* with two passwords, the email of an account, a short password, a
\* confirmation that differs.
RegisterInputs ==
    {<<EmailC, "tr0ubadour3", "tr0ubadour3">>,
     <<EmailC, "xkcdpassword4", "xkcdpassword4">>,
     <<EmailD, "tr0ubadour3", "tr0ubadour3">>,
     <<EmailA, "xkcdpassword4", "xkcdpassword4">>,
     <<EmailD, "short", "short">>,
     <<EmailD, "tr0ubadour3", "tr0ubadour4">>}

\* handleRegister up to `await cryptoUtils.hashPassword`: the users are read
\* and tested now, the salt is drawn now.
handleRegister(email, password, confirmPassword) ==
    /\ IF \/ password # confirmPassword
          \/ Len(password) < 8
          \/ email \in DOMAIN users
       THEN UNCHANGED <<appTasks, rng>>
       ELSE /\ Cardinality(appTasks) < MaxTasks
            /\ appTasks' = appTasks \cup
                  {[kind |-> "register", email |-> email,
                    password |-> Some(password), existingUsers |-> users,
                    salt |-> rng]}
            /\ rng' = rng + 1
    /\ UNCHANGED <<currentUser, userPassword, entries, editingEntryId, lastAuth,
                   diskVars, clock, chan, bgVars>>

\* handleRegister from the result of hashPassword: the record is put into
\* the users read before the hashing, and these are written.
handleRegisterHashed(t, now) ==
    /\ t \in appTasks
    /\ t.kind = "register"
    /\ DateNow(now)
    /\ clock' = now
    /\ LET record == [email |-> t.email, createdAt |-> now,
                      hashedPassword |-> hashPassword(t.password, t.salt)]
       IN users' = [e \in DOMAIN t.existingUsers \cup {t.email} |->
                       IF e = t.email THEN record ELSE t.existingUsers[e]]
    /\ appTasks' = appTasks \ {t}
    /\ UNCHANGED <<currentUser, userPassword, entries, editingEntryId, lastAuth,
                   savedUser, vaultData, sealed, rng, chan, bgVars>>

\* handleLogin up to `await cryptoUtils.verifyPassword`.
handleLogin(email, password) ==
    /\ IF email \notin DOMAIN users
       THEN UNCHANGED appTasks
       ELSE /\ Cardinality(appTasks) < MaxTasks
            /\ appTasks' = appTasks \cup
                  {[kind |-> "verify", email |-> email,
                    password |-> Some(password), user |-> users[email]]}
    /\ UNCHANGED <<currentUser, userPassword, entries, editingEntryId, lastAuth,
                   diskVars, clock, rng, chan, bgVars>>

\* handleLogin from the result of verifyPassword through the start of
\* loadUserEntries; when no envelope is stored loadUserEntries does not
\* suspend and the login notification follows in the same task.
handleLoginVerified(t) ==
    /\ t \in appTasks
    /\ t.kind = "verify"
    /\ IF ~verifyPassword(t.password, t.user.hashedPassword)
       THEN /\ appTasks' = appTasks \ {t}
            /\ UNCHANGED <<currentUser, userPassword, entries, savedUser, chan,
                           lastAuth>>
       ELSE /\ currentUser' = Some(t.user)
            /\ userPassword' = t.password
            /\ savedUser' = Some(t.user)
            /\ lastAuth' = "login"
            /\ IF vaultData[t.user.email] # None
               THEN /\ appTasks' = (appTasks \ {t}) \cup
                          {[kind |-> "load", email |-> t.email,
                            encryptedData |-> vaultData[t.user.email][1],
                            password |-> t.password]}
                    /\ UNCHANGED <<entries, chan>>
               ELSE /\ Len(chan) < MaxChan
                    /\ appTasks' = appTasks \ {t}
                    /\ entries' = <<>>
                    /\ notifyExtension("user_logged_in", loginData(t.email, t.password))
    /\ UNCHANGED <<editingEntryId, users, vaultData, sealed, clock, rng,
                   bgVars>>

\* loadUserEntries from the result of decrypt, then the rest of handleLogin.
loadUserEntries(t) ==
    /\ t \in appTasks
    /\ t.kind = "load"
    /\ Len(chan) < MaxChan
    /\ LET decryptedData == decrypt(t.encryptedData, t.password)
       IN entries' = IF decryptedData.ok THEN JSONparse(decryptedData.text)
                     ELSE <<>>
    /\ appTasks' = appTasks \ {t}
    /\ notifyExtension("user_logged_in", loginData(t.email, t.password))
    /\ UNCHANGED <<currentUser, userPassword, editingEntryId, lastAuth, diskVars,
                   clock, rng, bgVars>>

\* A logout that also removes the stored envelope of the user.
handleLogoutForgetting ==
    /\ Len(chan) < MaxChan
    /\ currentUser' = None
    /\ userPassword' = None
    /\ entries' = <<>>
    /\ savedUser' = None
    /\ lastAuth' = "logout"
    /\ notifyExtension("user_logged_out", None)
    /\ vaultData' = IF currentUser = None THEN vaultData
                    ELSE [vaultData EXCEPT ![currentUser[1].email] = None]
    /\ UNCHANGED <<editingEntryId, users, sealed, appTasks, clock, rng, bgVars>>

handleLogout ==
    /\ Len(chan) < MaxChan
    /\ currentUser' = None
    /\ userPassword' = None
    /\ entries' = <<>>
    /\ savedUser' = None
    /\ lastAuth' = "logout"
    /\ notifyExtension("user_logged_out", None)
    /\ UNCHANGED <<editingEntryId, users, vaultData, sealed, appTasks, clock, rng,
                   bgVars>>

\* saveUserEntries up to `await cryptoUtils.encrypt`: the key, the JSON text
\* and the password are read now, salt and iv are drawn now.  Without a
\* current user `this.currentUser.email` throws; the catch block alerts.
saveUserEntries(list, origin) ==
    IF currentUser = None
    THEN UNCHANGED <<appTasks, rng>>
    ELSE /\ Cardinality(appTasks) < MaxTasks
         /\ appTasks' = appTasks \cup
               {[kind |-> "save", origin |-> origin,
                 userDataKey |-> currentUser[1].email,
                 list |-> list, dataToEncrypt |-> JSONstringify(list),
                 password |-> userPassword, salt |-> rng, iv |-> rng + 1]}
         /\ rng' = rng + 2

\* saveUserEntries when cryptoUtils.encrypt rejects or localStorage.setItem
\* throws (the quota is exceeded): the catch block logs and alerts, nothing
\* is written or posted, and saveUserEntries returns to the calling handler,
\* which goes on as after a save (handleEditEntry closes the modal).
saveUserEntriesFailed(t) ==
    /\ t \in appTasks
    /\ t.kind = "save"
    /\ appTasks' = appTasks \ {t}
    /\ editingEntryId' = IF t.origin = "edit" THEN None ELSE editingEntryId
    /\ UNCHANGED <<currentUser, userPassword, entries, lastAuth, diskVars,
                   clock, rng, chan, bgVars>>

\* saveUserEntries from the result of encrypt: the write, the notification
\* with the entries as they are now, then the rest of the calling handler
\* (handleEditEntry closes the modal).
saveUserEntriesEncrypted(t) ==
    /\ t \in appTasks
    /\ t.kind = "save"
    /\ Len(chan) < MaxChan
    /\ vaultData' = [vaultData EXCEPT ![t.userDataKey] =
                        Some(encrypt(t.dataToEncrypt, t.password, t.salt, t.iv))]
    /\ sealed' = [sealed EXCEPT ![t.userDataKey] =
                     Some([list |-> t.list, password |-> t.password])]
    /\ notifyExtension("entries_updated", entries)
    /\ appTasks' = appTasks \ {t}
    /\ editingEntryId' = IF t.origin = "edit" THEN None ELSE editingEntryId
    /\ UNCHANGED <<currentUser, userPassword, entries, lastAuth, users,
                   savedUser, clock, rng, bgVars>>

handleAddEntry(platformName, platformUsername, platformPassword, now) ==
    /\ DateNow(now)
    /\ IF platformName = <<>> \/ platformUsername = "" \/ platformPassword = ""
       THEN UNCHANGED <<entries, appTasks, rng, clock>>
       ELSE IF \E i \in 1..Len(entries) :
                  toLowerCase(entries[i].platform) = toLowerCase(platformName)
       THEN UNCHANGED <<entries, appTasks, rng, clock>>
       ELSE LET newEntry == [id |-> now,
                             platform |-> capitalizePlatform(platformName),
                             username |-> platformUsername,
                             password |-> platformPassword,
                             createdAt |-> now, updatedAt |-> None]
            IN /\ entries' = Append(entries, newEntry)
               /\ clock' = now
               /\ saveUserEntries(Append(entries, newEntry), "add")
    /\ UNCHANGED <<currentUser, userPassword, editingEntryId, lastAuth, diskVars,
                   chan, bgVars>>

openEditModal(entryId) ==
    /\ \E i \in 1..Len(entries) : entries[i].id = entryId
    /\ editingEntryId' = Some(entryId)
    /\ UNCHANGED <<currentUser, userPassword, entries, lastAuth, diskVars,
                   appTasks, clock, rng, chan, bgVars>>

closeModal ==
    /\ editingEntryId # None
    /\ editingEntryId' = None
    /\ UNCHANGED <<currentUser, userPassword, entries, lastAuth, diskVars,
                   appTasks, clock, rng, chan, bgVars>>

handleEditEntry(platformName, platformUsername, platformPassword, now) ==
    /\ DateNow(now)
    /\ LET entryIndex == findIndex(entries, editingEntryId)
           duplicateEntry ==
               \E i \in 1..Len(entries) :
                   /\ toLowerCase(entries[i].platform) = toLowerCase(platformName)
                   /\ Some(entries[i].id) # editingEntryId
       IN IF \/ platformName = <<>> \/ platformUsername = ""
             \/ platformPassword = ""
             \/ entryIndex = 0
             \/ duplicateEntry
          THEN UNCHANGED <<entries, appTasks, rng, editingEntryId, clock>>
          ELSE LET list == [entries EXCEPT ![entryIndex] =
                               [@ EXCEPT !.platform = capitalizePlatform(platformName),
                                         !.username = platformUsername,
                                         !.password = platformPassword,
                                         !.updatedAt = Some(now)]]
               IN /\ entries' = list
                  /\ clock' = now
                  /\ saveUserEntries(list, "edit")
                  /\ editingEntryId' =
                        IF currentUser = None THEN None ELSE editingEntryId
    /\ UNCHANGED <<currentUser, userPassword, lastAuth, diskVars, chan, bgVars>>

handleDeleteEntry(entryId) ==
    /\ entries' = filterOut(entries, entryId)
    /\ saveUserEntries(filterOut(entries, entryId), "delete")
    /\ UNCHANGED <<currentUser, userPassword, editingEntryId, lastAuth, diskVars,
                   clock, chan, bgVars>>

\* The ciphertext of a text with bits changed in the region of the secret of
\* its first record: without the tag it would decipher to this text.
flipped(data) == [data EXCEPT ![1][4] = "flipped"]

\* handleLogin when the derivation inside verifyPassword rejects: the catch
\* block of verifyPassword returns false and handleLogin takes the branch of
\* the invalid password.
handleLoginVerifyFault(t) ==
    /\ t \in appTasks
    /\ t.kind = "verify"
    /\ appTasks' = appTasks \ {t}
    /\ UNCHANGED <<currentUser, userPassword, entries, editingEntryId, lastAuth,
                   diskVars, clock, rng, chan, bgVars>>

\* Something else that reaches localStorage replaces the stored hash of an
\* account.
corrupt(email, value) ==
    /\ email \in DOMAIN users
    /\ users[email].hashedPassword # value
    /\ users' = [users EXCEPT ![email].hashedPassword = value]
    /\ UNCHANGED <<appVars, savedUser, vaultData, sealed, clock, rng, chan,
                   bgVars>>

\* Something else that reaches localStorage changes the ciphertext region of
\* the envelope of an account; the salt, the iv and the tag stay.
tamper(email) ==
    /\ vaultData[email] # None
    /\ LET c == vaultData[email][1].payload
       IN /\ c.tag = <<c.key, c.iv, c.data>>
          /\ c.data # <<>>
          /\ vaultData' = [vaultData EXCEPT ![email] =
                Some([@[1] EXCEPT !.payload.data = flipped(c.data)])]
    /\ UNCHANGED <<appVars, users, savedUser, sealed, clock, rng, chan, bgVars>>

\* The page is loaded anew: a new PasswordVault over the same localStorage;
\* checkAuthState restores currentUser from the marker, never the password.
checkAuthState ==
    /\ currentUser' = savedUser
    /\ userPassword' = None
    /\ entries' = <<>>
    /\ editingEntryId' = None
    /\ appTasks' = {}
    /\ lastAuth' = "none"
    /\ UNCHANGED <<diskVars, clock, rng, chan, bgVars>>

---------------------------------------------------------------------------
(* ContentScript (content.js): the relay from a page to the worker. *)

GitEntry == [id |-> 1, platform |-> capitalizePlatform(Git), username |-> "bob",
             password |-> "p@ss", createdAt |-> 1, updatedAt |-> None]

EntryLists == {<<>>, <<EarlierEntry>>, <<GitEntry, EarlierEntry>>}

GithubEntry == [id |-> 2, platform |-> capitalizePlatform(Git \o Hub),
                username |-> "alice", password |-> "s3cret", createdAt |-> 2,
                updatedAt |-> None]

\* Lists for the lookup.
MatchLists == {<<>>, <<EarlierEntry>>, <<GithubEntry>>, <<GitEntry, EarlierEntry>>,
               <<EarlierEntry, GitEntry>>, <<GithubEntry, GitEntry>>}

\* handleVaultMessage: a window message of type VAULT_UPDATE, from whatever
\* page the script is injected in, is forwarded to the worker.
handleVaultMessage(action, data) ==
    /\ Len(chan) < MaxChan
    /\ chan' = Append(chan, VaultUpdate(action, data))
    /\ UNCHANGED <<appVars, diskVars, clock, rng, bgVars>>

\* notifyExtension when the message reaches the worker on both of its ways,
\* through chrome.runtime.sendMessage of the page and through the relay of
\* the content script: the worker receives it twice.
notifiedTwice(action, data) ==
    /\ Len(chan) + 2 <= MaxChan
    /\ chan' = chan \o <<VaultUpdate(action, data), VaultUpdate(action, data)>>
    /\ UNCHANGED <<appVars, diskVars, clock, rng, bgVars>>

\* The message never reaches the worker: no content script in the page and
\* no chrome.runtime in it.
dropMessage ==
    /\ chan # <<>>
    /\ chan' = Tail(chan)
    /\ UNCHANGED <<appVars, diskVars, clock, rng, bgVars>>

---------------------------------------------------------------------------
(* BackgroundService (background.js). *)

DotCom == <<".","c","o","m">>
Www == <<"w","w","w",".">>
GithubCom == <<"g","i","t","h","u","b">> \o DotCom
WwwGithubCom == Www \o GithubCom
ExampleCom == <<"e","x","a","m","p","l","e">> \o DotCom
Hostnames == {GithubCom, WwwGithubCom, ExampleCom}

\* More hostnames for the lookup: upper case, a "www." inside the name, a
\* name that only the ".com" test relates to a platform, a bare name.
GitHubComUpper == <<"G","i","t","H","u","b">> \o DotCom
GitWwwHubCom == <<"g","i","t">> \o Www \o <<"h","u","b">> \o DotCom
BCom == <<"b">> \o DotCom
It == <<"i","t">>
MatchHostnames == Hostnames \cup {GitHubComUpper, GitWwwHubCom, BCom, It}

\* domain.toLowerCase().replace('www.', ''): String.prototype.replace with a
\* string pattern removes the first occurrence, wherever it is.
normalized(domain) == replaceFirst(toLowerCase(domain), Www)

\* The matching loop with the direct test alone.
domainMatchesDirect(normalizedDomain, entry) ==
    LET platformLower == toLowerCase(entry.platform)
    IN \/ includes(normalizedDomain, platformLower)
       \/ includes(platformLower, normalizedDomain)

\* The two tests of the matching loop for one entry.
domainMatches(normalizedDomain, entry) ==
    LET platformLower == toLowerCase(entry.platform)
    IN \/ includes(normalizedDomain, platformLower)
       \/ includes(platformLower, normalizedDomain)
       \/ includes(normalizedDomain, platformLower \o DotCom)
       \/ includes(platformLower \o DotCom, normalizedDomain)

\* A lookup that leaves out the test of isUserLoggedIn.
getPasswordForDomainOfCache(domain) ==
    IF Len(passwordData) = 0
    THEN None
    ELSE LET normalizedDomain == normalized(domain)
             hits == {i \in 1..Len(passwordData) :
                         domainMatches(normalizedDomain, passwordData[i])}
         IN IF hits = {} THEN None
            ELSE LET first == CHOOSE i \in hits : \A j \in hits : i <= j
                 IN Some([platform |-> passwordData[first].platform,
                          password |-> passwordData[first].password])

getPasswordForDomain(domain) ==
    IF ~isUserLoggedIn \/ Len(passwordData) = 0
    THEN None
    ELSE LET normalizedDomain == normalized(domain)
             hits == {i \in 1..Len(passwordData) :
                         domainMatches(normalizedDomain, passwordData[i])}
         IN IF hits = {} THEN None
            ELSE LET first == CHOOSE i \in hits : \A j \in hits : i <= j
                 IN Some([platform |-> passwordData[first].platform,
                          password |-> passwordData[first].password])

Success == Some([success |-> TRUE])

\* chrome.storage.local.set, as saveToStorage issues it: writes take effect
\* in the order they are issued.
saveToStorage(key, data) ==
    IF key = "userStatus"
    THEN storedStatus' = Some(data) /\ UNCHANGED storedData
    ELSE storedData' = Some(data) /\ UNCHANGED storedStatus

\* A handler that adds the entries of entries_updated to those it holds.
handleVaultUpdateAppending ==
    /\ chan # <<>>
    /\ Cardinality(bgTasks) < MaxTasks
    /\ chan' = Tail(chan)
    /\ LET message == Head(chan)
       IN /\ CASE message.action = "user_logged_in" ->
                    /\ isUserLoggedIn' = TRUE
                    /\ userEmail' = Some(message.data.email)
                    /\ saveToStorage("userStatus",
                          [isLoggedIn |-> TRUE, email |-> Some(message.data.email)])
                    /\ lastEvent' = message.action
                    /\ UNCHANGED passwordData
               [] message.action = "user_logged_out" ->
                    /\ isUserLoggedIn' = FALSE
                    /\ userEmail' = None
                    /\ passwordData' = <<>>
                    /\ saveToStorage("userStatus",
                          [isLoggedIn |-> FALSE, email |-> None])
                    /\ lastEvent' = message.action
               [] message.action = "entries_updated" ->
                    /\ passwordData' = passwordData \o message.data
                    /\ saveToStorage("passwordData", passwordData \o message.data)
                    /\ UNCHANGED <<isUserLoggedIn, userEmail, lastEvent>>
          /\ bgTasks' = bgTasks \cup
                {[kind |-> IF message.action = "user_logged_out"
                           THEN "logoutSaved" ELSE "saved",
                  action |-> message.action]}
    /\ UNCHANGED <<appVars, diskVars, clock, rng, reply, tabOut>>

\* handleMessage for the VAULT_UPDATE at the head of the channel, through
\* handleVaultUpdate up to its first `await this.saveToStorage`.  The
\* suspended handler keeps the action of its message.
handleVaultUpdate ==
    /\ chan # <<>>
    /\ Cardinality(bgTasks) < MaxTasks
    /\ chan' = Tail(chan)
    /\ LET message == Head(chan)
       IN /\ CASE message.action = "user_logged_in" ->
                    /\ isUserLoggedIn' = TRUE
                    /\ userEmail' = Some(message.data.email)
                    /\ saveToStorage("userStatus",
                          [isLoggedIn |-> TRUE, email |-> Some(message.data.email)])
                    /\ lastEvent' = message.action
                    /\ UNCHANGED passwordData
               [] message.action = "user_logged_out" ->
                    /\ isUserLoggedIn' = FALSE
                    /\ userEmail' = None
                    /\ passwordData' = <<>>
                    /\ saveToStorage("userStatus",
                          [isLoggedIn |-> FALSE, email |-> None])
                    /\ lastEvent' = message.action
               [] message.action = "entries_updated" ->
                    /\ passwordData' = message.data
                    /\ saveToStorage("passwordData", message.data)
                    /\ UNCHANGED <<isUserLoggedIn, userEmail, lastEvent>>
          /\ bgTasks' = bgTasks \cup
                {[kind |-> IF message.action = "user_logged_out"
                           THEN "logoutSaved" ELSE "saved",
                  action |-> message.action]}
    /\ UNCHANGED <<appVars, diskVars, clock, rng, reply, tabOut>>

\* The user_logged_out case after its first write: the second write.
handleVaultUpdateLogoutSaved(t) ==
    /\ t \in bgTasks
    /\ t.kind = "logoutSaved"
    /\ saveToStorage("passwordData", <<>>)
    /\ bgTasks' = (bgTasks \ {t}) \cup {[kind |-> "saved", action |-> t.action]}
    /\ UNCHANGED <<appVars, diskVars, clock, rng, chan, isUserLoggedIn,
                   userEmail, passwordData, reply, tabOut, lastEvent>>

\* handleVaultUpdate after its last write: broadcastToContentScripts starts
\* (and suspends on chrome.tabs.query), handleMessage answers.
handleVaultUpdateSaved(t) ==
    /\ t \in bgTasks
    /\ t.kind = "saved"
    /\ bgTasks' = (bgTasks \ {t}) \cup
          {[kind |-> "broadcast", action |-> t.action]}
    /\ reply' = Success
    /\ UNCHANGED <<appVars, diskVars, clock, rng, chan, isUserLoggedIn,
                   userEmail, passwordData, storedStatus, storedData, tabOut,
                   lastEvent>>

\* broadcastToContentScripts from the result of chrome.tabs.query: the
\* snapshot is read from the fields as they are now.
broadcastToContentScripts(t) ==
    /\ t \in bgTasks
    /\ t.kind = "broadcast"
    /\ bgTasks' = bgTasks \ {t}
    /\ tabOut' = Some([type |-> "VAULT_STATUS_UPDATE",
                       isLoggedIn |-> isUserLoggedIn,
                       passwordData |-> passwordData])
    /\ UNCHANGED <<appVars, diskVars, clock, rng, chan, isUserLoggedIn,
                   userEmail, passwordData, storedStatus, storedData, reply,
                   lastEvent>>

\* loadFromStorage up to `await chrome.storage.local.get`: the read is
\* issued, its result is what the key holds now.
loadFromStorage(key) ==
    [kind |-> key, value |-> IF key = "userStatus" THEN storedStatus
                             ELSE storedData]

\* loadStoredData from the result of the read of 'userStatus'.
loadStoredDataStatus(t) ==
    /\ t \in bgTasks
    /\ t.kind = "userStatus"
    /\ IF t.value # None
       THEN /\ isUserLoggedIn' = t.value[1].isLoggedIn
            /\ userEmail' = t.value[1].email
       ELSE UNCHANGED <<isUserLoggedIn, userEmail>>
    /\ bgTasks' = (bgTasks \ {t}) \cup {loadFromStorage("passwordData")}
    /\ UNCHANGED <<appVars, diskVars, clock, rng, chan, passwordData,
                   storedStatus, storedData, reply, tabOut, lastEvent>>

\* loadStoredData from the result of the read of 'passwordData'.
loadStoredDataData(t) ==
    /\ t \in bgTasks
    /\ t.kind = "passwordData"
    /\ passwordData' = IF t.value # None THEN t.value[1] ELSE passwordData
    /\ bgTasks' = bgTasks \ {t}
    /\ UNCHANGED <<appVars, diskVars, clock, rng, chan, isUserLoggedIn,
                   userEmail, storedStatus, storedData, reply, tabOut, lastEvent>>

\* The service worker is started anew: the constructor, then loadStoredData
\* up to its first read.
BackgroundService ==
    /\ passwordData' = <<>>
    /\ isUserLoggedIn' = FALSE
    /\ userEmail' = None
    /\ bgTasks' = {loadFromStorage("userStatus")}
    /\ lastEvent' = "none"
    /\ UNCHANGED <<appVars, diskVars, clock, rng, chan, storedStatus,
                   storedData, reply, tabOut>>

\* handleMessage for GET_PASSWORD_DATA.
GET_PASSWORD_DATA(domain) ==
    /\ reply' = Some([passwordData |-> getPasswordForDomain(domain)])
    /\ UNCHANGED <<appVars, diskVars, clock, rng, chan, isUserLoggedIn,
                   userEmail, passwordData, storedStatus, storedData, bgTasks,
                   tabOut, lastEvent>>

\* requestAutofill: the match, if any, is sent to the tab.
requestAutofill(domain) ==
    LET data == getPasswordForDomain(domain)
    IN tabOut' = IF data # None
                 THEN Some([type |-> "AUTOFILL_PASSWORD", passwordData |-> data[1]])
                 ELSE tabOut

\* handleMessage for REQUEST_AUTOFILL sent by a content script (sender.tab is
\* set).
REQUEST_AUTOFILL(domain) ==
    /\ requestAutofill(domain)
    /\ reply' = Success
    /\ UNCHANGED <<appVars, diskVars, clock, rng, chan, isUserLoggedIn,
                   userEmail, passwordData, storedStatus, storedData, bgTasks,
                   lastEvent>>

\* handleMessage for REQUEST_AUTOFILL that the popup has sent: the sender is
\* no tab, `sender.tab.id` throws before requestAutofill is called, the
\* promise of handleMessage rejects and sendResponse is never called.
PopupRequestAutofill(domain) ==
    UNCHANGED <<appVars, diskVars, clock, rng, chan, bgVars>>

\* handleMessage for a type that is none of its cases.
UnknownMessage ==
    /\ reply' = Some([error |-> "Unknown message type"])
    /\ UNCHANGED <<appVars, diskVars, clock, rng, chan, isUserLoggedIn,
                   userEmail, passwordData, storedStatus, storedData, bgTasks,
                   tabOut, lastEvent>>

\* handleMessage for POPUP_REQUEST_STATUS.
POPUP_REQUEST_STATUS ==
    /\ reply' = Some([isLoggedIn |-> isUserLoggedIn, userEmail |-> userEmail,
                      entriesCount |-> Len(passwordData)])
    /\ UNCHANGED <<appVars, diskVars, clock, rng, chan, isUserLoggedIn,
                   userEmail, passwordData, storedStatus, storedData, bgTasks,
                   tabOut, lastEvent>>

---------------------------------------------------------------------------
(* The specifications: the whole system, the page alone (no extension       *)
(* listening), one session of the page alone, the worker alone (pages       *)
(* posting to it).                                                          *)

Times == 1..MaxClock
Ids == 0..MaxClock

Issue(limit) == ops < limit /\ ops' = ops + 1

VaultSession(limit) ==
    \/ \E in \in LoginInputs : Issue(limit) /\ handleLogin(in[1], in[2])
    \/ Issue(limit) /\ handleLogout
    \/ Issue(limit) /\ checkAuthState

VaultMutation(limit) ==
    \/ \E f \in FormInputs, now \in Times :
          Issue(limit) /\ handleAddEntry(f[1], f[2], f[3], now)
    \/ \E f \in FormInputs, now \in Times :
          Issue(limit) /\ handleEditEntry(f[1], f[2], f[3], now)
    \/ \E id \in Ids : Issue(limit) /\ handleDeleteEntry(id)

\* Opening and closing the edit modal.
VaultModal ==
    \/ \E id \in Ids : openEditModal(id) /\ UNCHANGED ops
    \/ closeModal /\ UNCHANGED ops

VaultStep ==
    \/ \E t \in appTasks : handleLoginVerified(t) /\ UNCHANGED ops
    \/ \E t \in appTasks : loadUserEntries(t) /\ UNCHANGED ops
    \/ \E t \in appTasks : saveUserEntriesEncrypted(t) /\ UNCHANGED ops

\* The notifyExtension calls of a page, as any page may post them.
PageOp(limit) ==
    \/ \E e \in Emails :
          Issue(limit) /\ handleVaultMessage("user_logged_in", [email |-> e])
    \/ Issue(limit) /\ handleVaultMessage("user_logged_out", None)
    \/ \E list \in EntryLists :
          Issue(limit) /\ handleVaultMessage("entries_updated", list)

CoordinatorOp(limit) ==
    \/ Issue(limit) /\ BackgroundService
    \/ \E d \in Hostnames : Issue(limit) /\ GET_PASSWORD_DATA(d)
    \/ \E d \in Hostnames : Issue(limit) /\ REQUEST_AUTOFILL(d)
    \/ Issue(limit) /\ POPUP_REQUEST_STATUS

CoordinatorStep ==
    \/ handleVaultUpdate /\ UNCHANGED ops
    \/ \E t \in bgTasks : handleVaultUpdateLogoutSaved(t) /\ UNCHANGED ops
    \/ \E t \in bgTasks : handleVaultUpdateSaved(t) /\ UNCHANGED ops
    \/ \E t \in bgTasks : broadcastToContentScripts(t) /\ UNCHANGED ops
    \/ \E t \in bgTasks : loadStoredDataStatus(t) /\ UNCHANGED ops
    \/ \E t \in bgTasks : loadStoredDataData(t) /\ UNCHANGED ops

Lost == dropMessage /\ UNCHANGED ops

Next ==
    \/ VaultSession(MaxOps)
    \/ VaultMutation(MaxOps)
    \/ VaultModal
    \/ VaultStep
    \/ CoordinatorOp(MaxOps)
    \/ CoordinatorStep
    \/ Lost

Spec == Init /\ [][Next]_vars

\* No extension is listening: what the page posts is lost, and nothing is
\* issued before it is.
Alone(limit) == IF chan = <<>> THEN limit ELSE 0

NextVault ==
    \/ VaultSession(Alone(MaxVaultOps))
    \/ VaultMutation(Alone(MaxVaultOps))
    \/ VaultModal
    \/ VaultStep
    \/ Lost

SpecVault == Init /\ [][NextVault]_vars

\* One session: account B has logged in and its entries are loaded; entries
\* are added, edited and deleted.
InitEntries ==
    /\ Installed
    /\ currentUser = Some(UserB)
    /\ userPassword = Some(MasterPassword(EmailB))
    /\ entries = <<EarlierEntry>>
    /\ savedUser = Some(UserB)
    /\ lastAuth = "login"

NextEntries ==
    \/ VaultMutation(Alone(MaxEntryOps))
    \/ VaultModal
    \/ \E t \in appTasks : saveUserEntriesEncrypted(t) /\ UNCHANGED ops
    \/ Lost

SpecEntries == InitEntries /\ [][NextEntries]_vars

\* The same session with the add form alone.
NextAdd ==
    \/ \E f \in FormInputs, now \in Times :
          Issue(Alone(MaxAddOps)) /\ handleAddEntry(f[1], f[2], f[3], now)
    \/ \E t \in appTasks : saveUserEntriesEncrypted(t) /\ UNCHANGED ops
    \/ Lost

SpecAdd == InitEntries /\ [][NextAdd]_vars

\* The session of account B with a storage that may fail.
NextFault ==
    \/ VaultMutation(Alone(MaxFaultOps))
    \/ VaultModal
    \/ \E t \in appTasks : saveUserEntriesEncrypted(t) /\ UNCHANGED ops
    \/ \E t \in appTasks : saveUserEntriesFailed(t) /\ UNCHANGED ops
    \/ Lost

SpecFault == InitEntries /\ [][NextFault]_vars

\* The registration form alone.
NextRegister ==
    \/ \E in \in RegisterInputs :
          Issue(MaxRegisterOps) /\ handleRegister(in[1], in[2], in[3])
    \/ \E t \in appTasks, now \in Times :
          handleRegisterHashed(t, now) /\ UNCHANGED ops

SpecRegister == Init /\ [][NextRegister]_vars

\* What is typed into the login form once accounts can be added: every email
\* and password of the registration form, and the first accounts with their
\* own passwords.
AccountInputs ==
    {<<in[1], in[2]>> : in \in RegisterInputs}
    \cup {<<e, MasterPassword(e)>> : e \in Emails}

\* Registrations and logins of one page.
NextAccounts ==
    \/ \E in \in RegisterInputs :
          Issue(MaxAccountOps) /\ handleRegister(in[1], in[2], in[3])
    \/ \E in \in AccountInputs :
          Issue(MaxAccountOps) /\ handleLogin(in[1], in[2])
    \/ \E t \in appTasks, now \in Times :
          handleRegisterHashed(t, now) /\ UNCHANGED ops
    \/ \E t \in appTasks : handleLoginVerified(t) /\ UNCHANGED ops
    \/ \E t \in appTasks : loadUserEntries(t) /\ UNCHANGED ops
    \/ Lost

SpecAccounts == Init /\ [][NextAccounts]_vars

\* The tab has been reloaded during the session of account B: checkAuthState
\* has restored the user from the marker, without password and without
\* entries.
InitReloaded ==
    /\ Installed
    /\ currentUser = Some(UserB)
    /\ userPassword = None
    /\ entries = <<>>
    /\ savedUser = Some(UserB)
    /\ lastAuth = "none"

NextReloaded ==
    \/ VaultSession(Alone(MaxReloadedOps))
    \/ VaultMutation(Alone(MaxReloadedOps))
    \/ VaultModal
    \/ VaultStep
    \/ Lost

SpecReloaded == InitReloaded /\ [][NextReloaded]_vars

\* The same, with envelopes that are changed in the storage.
NextTamper ==
    \/ NextReloaded
    \/ \E e \in Emails : tamper(e) /\ UNCHANGED ops

SpecTamper == InitReloaded /\ [][NextTamper]_vars

\* The session of account B with the extension: logins, logouts and
\* deletions of the page, the worker, and the requests of tabs.
NextServe ==
    \/ VaultSession(MaxServeOps)
    \/ \E id \in Ids : Issue(MaxServeOps) /\ handleDeleteEntry(id)
    \/ VaultStep
    \/ CoordinatorStep
    \/ \E d \in Hostnames : Issue(MaxServeOps) /\ GET_PASSWORD_DATA(d)
    \/ \E d \in Hostnames : Issue(MaxServeOps) /\ REQUEST_AUTOFILL(d)

SpecServe == InitEntries /\ [][NextServe]_vars

\* Logins and logouts of a page that is not loaded anew, with the extension.
NextSession ==
    \/ \E in \in LoginInputs :
          Issue(MaxSessionOps) /\ handleLogin(in[1], in[2])
    \/ Issue(MaxSessionOps) /\ handleLogout
    \/ \E t \in appTasks : handleLoginVerified(t) /\ UNCHANGED ops
    \/ \E t \in appTasks : loadUserEntries(t) /\ UNCHANGED ops
    \/ CoordinatorStep

SpecSession == Init /\ [][NextSession]_vars

\* The stored hashes a record can be replaced with.
Malformed == {NotBase64} \cup {Truncated(u.hashedPassword) : u \in {UserA, UserB}}

\* Logins of one page over records that are replaced in the storage.
NextCorrupt ==
    \/ \E in \in LoginInputs :
          Issue(MaxCorruptOps) /\ handleLogin(in[1], in[2])
    \/ \E e \in Emails, v \in Malformed :
          Issue(MaxCorruptOps) /\ corrupt(e, v)
    \/ \E t \in appTasks, fault \in BOOLEAN :
          /\ IF fault THEN handleLoginVerifyFault(t) ELSE handleLoginVerified(t)
          /\ UNCHANGED ops
    \/ \E t \in appTasks : loadUserEntries(t) /\ UNCHANGED ops
    \/ Lost

SpecCorrupt == Init /\ [][NextCorrupt]_vars

NextCoordinator ==
    \/ PageOp(MaxCoordinatorOps)
    \/ CoordinatorOp(MaxCoordinatorOps)
    \/ CoordinatorStep

SpecCoordinator == Init /\ [][NextCoordinator]_vars

\* The worker alone in shorter runs.
NextQuery ==
    \/ PageOp(MaxQueryOps)
    \/ CoordinatorOp(MaxQueryOps)
    \/ CoordinatorStep

SpecQuery == Init /\ [][NextQuery]_vars

\* The worker, idle, receives every notification twice.
PageTwice(limit) ==
    \/ \E e \in Emails :
          Issue(limit) /\ notifiedTwice("user_logged_in", [email |-> e])
    \/ Issue(limit) /\ notifiedTwice("user_logged_out", None)
    \/ \E list \in EntryLists :
          Issue(limit) /\ notifiedTwice("entries_updated", list)

Idle(limit) == IF chan = <<>> /\ bgTasks = {} THEN limit ELSE 0

NextTwice ==
    \/ PageTwice(Idle(MaxTwiceOps))
    \/ CoordinatorStep

SpecTwice == Init /\ [][NextTwice]_vars

\* The lookup: account B is logged in with a list that the page has sealed
\* and that the worker has received after the login; tabs ask for the
\* credentials of hostnames.
InitMatch ==
    /\ \E list \in MatchLists :
          /\ entries = list
          /\ passwordData = list
          /\ storedData = Some(list)
          /\ tabOut = Some([type |-> "VAULT_STATUS_UPDATE", isLoggedIn |-> TRUE,
                            passwordData |-> list])
          /\ vaultData = (EmailA :> None) @@ (EmailC :> None) @@ (EmailD :> None) @@
                         (EmailB :> Some(encrypt(JSONstringify(list),
                                                 Some(MasterPassword(EmailB)), 2, 3)))
          /\ sealed = (EmailA :> None) @@ (EmailC :> None) @@ (EmailD :> None) @@
                      (EmailB :> Some([list |-> list,
                                       password |-> Some(MasterPassword(EmailB))]))
    /\ currentUser = Some(UserB)
    /\ userPassword = Some(MasterPassword(EmailB))
    /\ savedUser = Some(UserB)
    /\ lastAuth = "login"
    /\ editingEntryId = None
    /\ users = (EmailA :> UserA) @@ (EmailB :> UserB)
    /\ clock = 2
    /\ rng = 4
    /\ chan = <<>>
    /\ isUserLoggedIn = TRUE
    /\ userEmail = Some(EmailB)
    /\ storedStatus = Some([isLoggedIn |-> TRUE, email |-> Some(EmailB)])
    /\ bgTasks = {}
    /\ reply = Success
    /\ lastEvent = "user_logged_in"
    /\ appTasks = {}
    /\ ops = 0

NextMatch ==
    \/ \E d \in MatchHostnames : Issue(MaxMatchOps) /\ GET_PASSWORD_DATA(d)
    \/ \E d \in MatchHostnames : Issue(MaxMatchOps) /\ REQUEST_AUTOFILL(d)

SpecMatch == InitMatch /\ [][NextMatch]_vars

\* The worker after its restore, in step with its storage: the notifications
\* of pages and the handlers they start.
NextStore ==
    \/ PageOp(MaxStoreOps)
    \/ handleVaultUpdate /\ UNCHANGED ops
    \/ \E t \in bgTasks : handleVaultUpdateLogoutSaved(t) /\ UNCHANGED ops
    \/ \E t \in bgTasks : handleVaultUpdateSaved(t) /\ UNCHANGED ops
    \/ \E t \in bgTasks : broadcastToContentScripts(t) /\ UNCHANGED ops

SpecStore == InitMatch /\ [][NextStore]_vars

\* The worker from its start and everything that is sent to it: the
\* notifications of pages, the requests of tabs and of the popup, a message
\* of no known type.
NextRequests ==
    \/ PageOp(MaxRequestOps)
    \/ CoordinatorStep
    \/ \E d \in Hostnames : Issue(MaxRequestOps) /\ GET_PASSWORD_DATA(d)
    \/ \E d \in Hostnames : Issue(MaxRequestOps) /\ REQUEST_AUTOFILL(d)
    \/ \E d \in Hostnames : Issue(MaxRequestOps) /\ PopupRequestAutofill(d)
    \/ Issue(MaxRequestOps) /\ POPUP_REQUEST_STATUS
    \/ Issue(MaxRequestOps) /\ UnknownMessage

SpecRequests == Init /\ [][NextRequests]_vars

---------------------------------------------------------------------------
(* The properties.                                                          *)

\* A login has completed (password verified, entries loaded) and no logout
\* or reload has followed.
loggedIn ==
    /\ currentUser # None
    /\ userPassword # None
    /\ \A t \in appTasks : t.kind \notin {"verify", "load"}

\* list[i] and list[j] are two records whose platforms are equal under the
\* comparison of the duplicate checks (toLowerCase on both sides).
samePlatform(list, i, j) ==
    i # j /\ toLowerCase(list[i].platform) = toLowerCase(list[j].platform)

\* C1: in one session of one account, starting from a persisted list with
\* distinct platforms, no two records of the in-memory entry list have
\* platforms that are equal under case-insensitive comparison.
C1_PlatformsUnique ==
    \A i, j \in 1..Len(entries) : ~samePlatform(entries, i, j)

\* What the envelope stored for an account opens to under a password.
opened(email, password) ==
    IF vaultData[email] = None THEN None
    ELSE LET decryptedData == decrypt(vaultData[email][1], password)
         IN IF decryptedData.ok THEN Some(JSONparse(decryptedData.text))
            ELSE None

\* A saveUserEntries call is suspended on encrypt.
savePending == \E t \in appTasks : t.kind = "save"

\* C2: in a session, once every add, edit and delete that was issued has
\* completed (no save is pending), the envelope stored for the account opens
\* to exactly the in-memory entry list.
C2_PersistedIsCurrent ==
    (currentUser # None /\ ~savePending)
        => opened(currentUser[1].email, userPassword) = Some(entries)

\* C3: no two saveUserEntries executions for the same account are in flight
\* at the same time.
C3_OneSaveInFlight ==
    \A t1, t2 \in appTasks :
        (t1.kind = "save" /\ t2.kind = "save"
            /\ t1.userDataKey = t2.userDataKey) => t1 = t2

\* C4: after logout and until the next successful login, the page holds no
\* password and an empty entry list, also across the steps of a login or a
\* save that was pending when logout ran.
C4_LoggedOutStaysEmpty ==
    [][(/\ lastAuth = "logout" /\ lastAuth' = "logout"
        /\ userPassword = None /\ entries = <<>>
        /\ VaultStep)
       => (userPassword' = None /\ entries' = <<>>)]_vars

\* C5: after the worker has handled user_logged_out and until it handles a
\* later user_logged_in, getPasswordForDomain yields nothing for every
\* hostname.
C5_NoneAfterLogout ==
    lastEvent = "user_logged_out"
        => \A d \in Hostnames : getPasswordForDomain(d) = None

\* C7: when a login succeeds while another account is the current user, the
\* entries of that account are gone from memory at the moment the current
\* user changes.
C7_LoginDiscardsOtherSession ==
    [][(/\ \E t \in appTasks : handleLoginVerified(t)
        /\ currentUser # None /\ currentUser' # None
        /\ currentUser'[1].email # currentUser[1].email)
       => entries' = <<>>]_vars

\* A submission of the add form or the edit form, or a confirmed delete.
mutation ==
    \/ \E f \in FormInputs, now \in Times :
          handleAddEntry(f[1], f[2], f[3], now)
    \/ \E f \in FormInputs, now \in Times :
          handleEditEntry(f[1], f[2], f[3], now)
    \/ \E id \in Ids : handleDeleteEntry(id)

\* C8: an add, edit or delete invoked while no password is held in memory
\* changes neither the entry list nor any stored envelope, and starts no
\* save.
C8_NoMutationWithoutSession ==
    [][(userPassword = None /\ mutation)
       => (entries' = entries /\ vaultData' = vaultData
           /\ appTasks' = appTasks)]_vars

\* The secrets of records that a store holds outside an envelope.
plainSecrets(stored) ==
    IF stored = None THEN {}
    ELSE {stored[1][i].password : i \in 1..Len(stored[1])}

\* C9: no persistent store holds the secret of a record in plaintext.
C9_NoPlaintextSecretStored == plainSecrets(storedData) = {}

\* C6: while isUserLoggedIn is false, getPasswordForDomain yields nothing
\* for every hostname whatever passwordData holds, GET_PASSWORD_DATA is
\* answered with no record and REQUEST_AUTOFILL sends nothing to the tab.
C6_LoggedOutYieldsNone ==
    /\ [](~isUserLoggedIn
            => \A d \in Hostnames : getPasswordForDomain(d) = None)
    /\ [][~isUserLoggedIn
            => \A d \in Hostnames :
                  /\ GET_PASSWORD_DATA(d)
                        => reply' = Some([passwordData |-> None])
                  /\ REQUEST_AUTOFILL(d) => tabOut' = tabOut]_vars

\* The worker is logged out, its cache still holds an entry that matches
\* github.com, and a query has just been answered with no record.
C6_StaleCacheQueried ==
    /\ ~isUserLoggedIn
    /\ \E i \in 1..Len(passwordData) : domainMatches(GithubCom, passwordData[i])
    /\ reply # None
    /\ DOMAIN reply[1] = {"passwordData"}
    /\ reply[1].passwordData = None

\* The texts of a user record, of an entry, of a list of entries and of a
\* record of texts, as anyone who holds the value reads them.  A digest and
\* an envelope give no text without the password.
userText(user) == {user.email}
entryText(entry) == {entry.username, entry.password}
listText(list) == UNION {entryText(list[i]) : i \in 1..Len(list)}
fieldText(record) == {record[f] : f \in DOMAIN record}

\* The texts held under the storage keys of the page and of the worker.
storedText ==
    UNION {userText(users[e]) : e \in DOMAIN users}
    \cup (IF savedUser = None THEN {} ELSE userText(savedUser[1]))
    \cup (IF storedStatus = None \/ storedStatus[1].email = None THEN {}
          ELSE {storedStatus[1].email[1]})
    \cup (IF storedData = None THEN {} ELSE listText(storedData[1]))

\* The texts of a VAULT_UPDATE message.
updateText(message) ==
    CASE message.action = "user_logged_in" -> fieldText(message.data)
      [] message.action = "user_logged_out" -> {}
      [] message.action = "entries_updated" -> listText(message.data)

\* The texts of an answer of the worker and of a message to a tab.
replyText ==
    IF reply = None THEN {}
    ELSE IF "passwordData" \in DOMAIN reply[1]
    THEN IF reply[1].passwordData = None THEN {}
         ELSE {reply[1].passwordData[1].password}
    ELSE IF "userEmail" \in DOMAIN reply[1] /\ reply[1].userEmail # None
    THEN {reply[1].userEmail[1]}
    ELSE {}

tabText ==
    IF tabOut = None THEN {}
    ELSE IF tabOut[1].type = "AUTOFILL_PASSWORD"
    THEN {tabOut[1].passwordData.password}
    ELSE listText(tabOut[1].passwordData)

messageText ==
    UNION {updateText(chan[i]) : i \in 1..Len(chan)}
    \cup replyText \cup tabText

\* C10: no master password is held under a storage key of the page or of
\* the worker, and none is in a message between the contexts.
C10_PasswordStaysInMemory ==
    \A password \in MasterPasswords :
        password \notin storedText \cup messageText

\* A login has succeeded: the marker is written, and the worker has stored
\* the status that the login notification brought.
C10_LoginPublished ==
    /\ userPassword # None
    /\ savedUser = currentUser
    /\ storedStatus # None
    /\ storedStatus[1].isLoggedIn
    /\ storedStatus[1].email = Some(currentUser[1].email)

\* C11: after a restart of a context the stored marker or status restores
\* no session: a worker that has handled no login since it started reports
\* isUserLoggedIn false and yields nothing for every hostname, and a page
\* that was loaded anew holds no password and an empty entry list.
C11_RestartStaysLocked ==
    /\ [](lastEvent = "none"
            => /\ ~isUserLoggedIn
               /\ \A d \in Hostnames : getPasswordForDomain(d) = None)
    /\ [][checkAuthState => (userPassword' = None /\ entries' = <<>>)]_vars

\* C12: when a login with the password of the session that sealed the stored
\* envelope ends loadUserEntries, the in-memory list is the list that
\* session saved.
C12_RoundTrip ==
    [][\A t \in appTasks :
          (/\ loadUserEntries(t)
           /\ sealed[t.email] # None
           /\ sealed[t.email][1].password = t.password
           /\ vaultData[t.email] = Some(t.encryptedData))
          => entries' = sealed[t.email][1].list]_vars

\* A login has just loaded a list of two records, one of them saved in an
\* earlier login of this run.
C12_SavedListLoaded ==
    /\ Len(chan) = 1
    /\ chan[1].action = "user_logged_in"
    /\ Len(entries) = 2
    /\ currentUser # None
    /\ sealed[currentUser[1].email] =
          Some([list |-> entries, password |-> userPassword])

\* C13: a login with an email that is not registered, or with a password
\* that is not the one the account was registered with, leaves the current
\* user, the password, the entry list and the stored marker as they were and
\* posts no login notification.
C13_FailedLoginChangesNothing ==
    [][/\ \A in \in LoginInputs :
             (handleLogin(in[1], in[2]) /\ in[1] \notin DOMAIN users)
             => UNCHANGED <<currentUser, userPassword, entries, savedUser,
                            chan, appTasks>>
       /\ \A t \in appTasks :
             (/\ handleLoginVerified(t)
              /\ t.password # Some(MasterPassword(t.email)))
             => UNCHANGED <<currentUser, userPassword, entries, savedUser,
                            chan>>]_vars

\* Account B is logged in with its entries loaded, and a login for account A
\* with a wrong password is waiting for verifyPassword.
C13_WrongPasswordPending ==
    /\ currentUser = Some(UserB)
    /\ userPassword = Some(MasterPassword(EmailB))
    /\ entries # <<>>
    /\ \E t \in appTasks :
          /\ t.kind = "verify"
          /\ t.email # currentUser[1].email
          /\ t.password # Some(MasterPassword(t.email))

\* C14: loading the entries never fails a login.  A verified login of an
\* account without an envelope starts with an empty list and publishes the
\* login; when the envelope was sealed under another password than the one
\* of the login, the list is reset to empty, the user and the password of
\* the session stay, the login is still published and the envelope is not
\* modified.
C14_LoadNeverFailsLogin ==
    [][/\ \A t \in appTasks :
             (/\ handleLoginVerified(t)
              /\ t.password = Some(MasterPassword(t.email))
              /\ vaultData[t.email] = None)
             => /\ entries' = <<>>
                /\ currentUser' = Some(users[t.email])
                /\ userPassword' = t.password
                /\ vaultData' = vaultData
                /\ Len(chan') = Len(chan) + 1
                /\ chan'[Len(chan')].action = "user_logged_in"
       /\ \A t \in appTasks :
             (/\ loadUserEntries(t)
              /\ vaultData[t.email] = Some(t.encryptedData)
              /\ sealed[t.email] # None
              /\ sealed[t.email][1].password # t.password)
             => /\ entries' = <<>>
                /\ UNCHANGED <<currentUser, userPassword, vaultData>>
                /\ Len(chan') = Len(chan) + 1
                /\ chan'[Len(chan')].action = "user_logged_in"]_vars

\* A login has ended on an envelope that holds entries and was sealed under
\* another password: the session is active with an empty list and the login is
\* on its way to the extension.
C14_LoginOverUnreadableEnvelope ==
    /\ loggedIn
    /\ userPassword # None
    /\ lastAuth = "login"
    /\ appTasks = {}
    /\ entries = <<>>
    /\ sealed[currentUser[1].email] # None
    /\ sealed[currentUser[1].email][1].password # userPassword
    /\ sealed[currentUser[1].email][1].list # <<>>
    /\ Len(chan) = 1
    /\ chan[1].action = "user_logged_in"

\* C15: handleAddEntry with an empty platform, username or password, or with
\* a platform that equals the platform of a record of the list up to case,
\* leaves the list as it is and starts no save, so that the envelope stays
\* and nothing is posted; any other handleAddEntry makes the list one record
\* longer, the old records keeping their content and their places and the new
\* record, made of the typed fields, standing last.
C15_AddEntry ==
    [][\A f \in FormInputs, now \in Times :
          handleAddEntry(f[1], f[2], f[3], now)
          => IF \/ f[1] = <<>> \/ f[2] = "" \/ f[3] = ""
                \/ \E i \in 1..Len(entries) :
                      toUpperCase(entries[i].platform) = toUpperCase(f[1])
             THEN UNCHANGED <<entries, vaultData, chan, appTasks>>
             ELSE /\ Len(entries') = Len(entries) + 1
                  /\ SubSeq(entries', 1, Len(entries)) = entries
                  /\ toUpperCase(entries'[Len(entries')].platform)
                        = toUpperCase(f[1])
                  /\ entries'[Len(entries')].username = f[2]
                  /\ entries'[Len(entries')].password = f[3]]_vars

\* A record has been added behind the record the session loaded, and the
\* list of the two has been sealed.
C15_AddedBehindLoaded ==
    /\ loggedIn
    /\ appTasks = {}
    /\ Len(entries) = 2
    /\ entries[1] = EarlierEntry
    /\ entries[2].id # EarlierEntry.id
    /\ sealed[EmailB] = Some([list |-> entries, password |-> userPassword])

\* C16: handleEditEntry with all fields filled leaves the list as it is and
\* starts no save when no record has the edited id, or when a record at
\* another place than the edited one has the typed platform up to case;
\* otherwise only the edited record changes, and it keeps its id, its
\* createdAt and its place.
C16_EditEntry ==
    [][\A f \in FormInputs, now \in Times :
          (/\ handleEditEntry(f[1], f[2], f[3], now)
           /\ f[1] # <<>> /\ f[2] # "" /\ f[3] # "")
          => LET r == findIndex(entries, editingEntryId)
             IN IF \/ r = 0
                   \/ \E j \in 1..Len(entries) :
                         /\ j # r
                         /\ toUpperCase(entries[j].platform) = toUpperCase(f[1])
                THEN UNCHANGED <<entries, vaultData, appTasks>>
                ELSE /\ Len(entries') = Len(entries)
                     /\ \A j \in 1..Len(entries) : j # r => entries'[j] = entries[j]
                     /\ entries'[r].id = entries[r].id
                     /\ entries'[r].createdAt = entries[r].createdAt]_vars

\* C17: handleDeleteEntry of an id that a record of the list has removes the
\* records with that id and starts the save of the list that remains;
\* handleDeleteEntry of an id that no record has changes nothing, starts no
\* save and posts nothing.
C17_DeleteEntry ==
    [][\A id \in Ids :
          handleDeleteEntry(id)
          => IF \E i \in 1..Len(entries) : entries[i].id = id
             THEN /\ \A i \in 1..Len(entries') : entries'[i].id # id
                  /\ Len(entries') < Len(entries)
                  /\ \E t \in appTasks' \ appTasks :
                        t.kind = "save" /\ t.list = entries'
             ELSE UNCHANGED <<entries, appTasks, vaultData, chan>>]_vars

\* C18: no two records of the entry list have the same id.
C18_IdsUnique ==
    \A i, j \in 1..Len(entries) : i # j => entries[i].id # entries[j].id

\* C19: handleLogout leaves the stored users and every stored envelope as
\* they were; of what the page keeps, the current user, the password, the
\* entry list and the stored marker are cleared.
C19_LogoutKeepsStorage ==
    [][handleLogout
       => /\ users' = users
          /\ vaultData' = vaultData
          /\ currentUser' = None
          /\ userPassword' = None
          /\ entries' = <<>>
          /\ savedUser' = None]_vars

\* Account B has logged in, added a record behind the one it loaded, and
\* logged out: the logout is on its way to the extension and the envelope of
\* the two records is in its place.
C19_LoggedOutOverEnvelope ==
    /\ lastAuth = "logout"
    /\ currentUser = None
    /\ savedUser = None
    /\ appTasks = {}
    /\ vaultData[EmailB] # None
    /\ sealed[EmailB] # None
    /\ Len(sealed[EmailB][1].list) = 2
    /\ sealed[EmailB][1].password = Some(MasterPassword(EmailB))
    /\ Len(chan) = 1
    /\ chan[1].action = "user_logged_out"

\* C20: once the login of an account has loaded a list that is not empty, the
\* worker has handled the login notification, and nothing is suspended or on
\* its way, the worker holds the status, the email and the entry list of the
\* page.  The list is the one of the envelope, so that no later change of the
\* list is involved.
C20_CoordinatorMirrorsLogin ==
    (/\ loggedIn
     /\ lastAuth = "login"
     /\ lastEvent = "user_logged_in"
     /\ appTasks = {} /\ chan = <<>> /\ bgTasks = {}
     /\ userEmail = Some(currentUser[1].email)
     /\ entries # <<>>
     /\ sealed[currentUser[1].email] =
           Some([list |-> entries, password |-> userPassword]))
    => /\ isUserLoggedIn
       /\ passwordData = entries

\* C21: the snapshot that broadcastToContentScripts sends for an event shows
\* the state that event left: logged in for user_logged_in, logged out and
\* without entries for user_logged_out, also when another event was handled
\* while the handler of the first was suspended.
C21_BroadcastIsEventState ==
    [][\A t \in bgTasks :
          broadcastToContentScripts(t)
          => /\ t.action = "user_logged_in" => tabOut'[1].isLoggedIn
             /\ t.action = "user_logged_out"
                   => /\ ~tabOut'[1].isLoggedIn
                      /\ tabOut'[1].passwordData = <<>>]_vars

\* s contains t as a run of consecutive characters.
contains(s, t) ==
    \E a \in 0..Len(s) :
        /\ a + Len(t) <= Len(s)
        /\ \A k \in 1..Len(t) : s[a + k] = t[k]

\* The four tests that relate a normalized hostname to the platform of an
\* entry.
satisfies(n, entry) ==
    LET p == toLowerCase(entry.platform)
    IN \/ contains(n, p)
       \/ contains(p, n)
       \/ contains(n, p \o DotCom)
       \/ contains(p \o DotCom, n)

\* C22: the answer to GET_PASSWORD_DATA for a hostname is the first entry of
\* the list, in list order, whose lower-cased platform is contained in the
\* normalized hostname or contains it, alone or with ".com" appended; the
\* answer is null exactly when no entry of the list is so related.
C22_FirstMatch ==
    [][\A d \in MatchHostnames :
          GET_PASSWORD_DATA(d)
          => LET n == normalized(d)
                 hits == {i \in 1..Len(passwordData) : satisfies(n, passwordData[i])}
             IN IF hits = {}
                THEN reply' = Some([passwordData |-> None])
                ELSE \E i \in hits :
                        /\ \A j \in hits : i <= j
                        /\ reply' = Some([passwordData |->
                              Some([platform |-> passwordData[i].platform,
                                    password |-> passwordData[i].password])])]_vars

\* The list holds Git before Hub, both related to github.com, and the answer
\* to a tab is the Git entry.
C22_FirstOfTwoAnswered ==
    /\ passwordData = <<GitEntry, EarlierEntry>>
    /\ satisfies(GithubCom, GitEntry)
    /\ satisfies(GithubCom, EarlierEntry)
    /\ reply = Some([passwordData |->
                       Some([platform |-> GitEntry.platform,
                             password |-> GitEntry.password])])

\* A hostname without its "www." when it starts with "www.", and as it is
\* otherwise.
stripLeadingWww(h) ==
    IF Len(h) >= Len(Www) /\ SubSeq(h, 1, Len(Www)) = Www
    THEN SubSeq(h, Len(Www) + 1, Len(h))
    ELSE h

\* The first entry of the worker's list related to the hostname n.
answerFor(n) ==
    LET hits == {i \in 1..Len(passwordData) : satisfies(n, passwordData[i])}
    IN IF hits = {} THEN None
       ELSE LET i == CHOOSE i \in hits : \A j \in hits : i <= j
            IN Some([platform |-> passwordData[i].platform,
                     password |-> passwordData[i].password])

\* C23: the hostname is normalized by stripping a leading "www." and nothing
\* else, so that the answer to GET_PASSWORD_DATA for a hostname is the
\* answer for that hostname without a leading "www."; a "www." inside the
\* hostname stays.
C23_OnlyLeadingWwwStripped ==
    [][\A d \in MatchHostnames :
          GET_PASSWORD_DATA(d)
          => reply' = Some([passwordData |->
                              answerFor(stripLeadingWww(toLowerCase(d)))])]_vars

\* C24: when the worker is logged in and an entry r of its list is the first
\* one related to the hostname, REQUEST_AUTOFILL sends the tab a message that
\* carries the platform, the username and the password of r.
C24_AutofillCarriesRecord ==
    [][\A d \in MatchHostnames :
          (REQUEST_AUTOFILL(d) /\ isUserLoggedIn /\ answerFor(normalized(d)) # None)
          => \E i \in 1..Len(passwordData) :
                /\ satisfies(normalized(d), passwordData[i])
                /\ tabOut' = Some([type |-> "AUTOFILL_PASSWORD",
                                   passwordData |->
                                      [platform |-> passwordData[i].platform,
                                       username |-> passwordData[i].username,
                                       password |-> passwordData[i].password]])]_vars

\* C25: whatever is registered stays: no step removes an account from the
\* stored users or changes its record.
C25_AccountsStay ==
    [][\A e \in DOMAIN users :
          e \in DOMAIN users' /\ users'[e] = users[e]]_vars

\* C26: when the save of a mutation fails, the entry list does not keep the
\* mutation: it is again the list of the stored envelope.
C26_FailedSaveNotKept ==
    [][\A t \in appTasks :
          (saveUserEntriesFailed(t) /\ sealed[t.userDataKey] # None)
          => entries' = sealed[t.userDataKey][1].list]_vars

\* C27: when a notification reaches the idle worker twice in a row, the
\* handling of the second copy changes neither the fields of the worker nor
\* what is stored: its first step leaves them as the first copy left them,
\* and the second write of a logout stores the empty list that the logout of
\* the first copy stores.
C27_SecondDeliveryChangesNothing ==
    [][/\ (Len(chan) = 1 /\ handleVaultUpdate)
          => UNCHANGED <<isUserLoggedIn, userEmail, passwordData,
                         storedStatus, storedData>>
       /\ \A t \in bgTasks :
             handleVaultUpdateLogoutSaved(t) => storedData' = Some(<<>>)]_vars

\* Both copies of entries_updated with two entries have been handled, after
\* a login that came twice as well.
C27_TwiceHandled ==
    /\ chan = <<>>
    /\ bgTasks = {}
    /\ isUserLoggedIn
    /\ passwordData = <<GitEntry, EarlierEntry>>
    /\ storedData = Some(passwordData)
    /\ tabOut = Some([type |-> "VAULT_STATUS_UPDATE", isLoggedIn |-> TRUE,
                      passwordData |-> passwordData])

\* C28: the envelope that saveUserEntries writes for a text and the password
\* of the session is opened by decrypt, with that password, to that text.
C28_SealOpenRoundTrip ==
    [][\A t \in appTasks :
          saveUserEntriesEncrypted(t)
          => decrypt(vaultData'[t.userDataKey][1], t.password)
                = [ok |-> TRUE, text |-> t.dataToEncrypt]]_vars

\* A session that logged in with its password has sealed a list of two
\* entries.
C28_SealedBySession ==
    /\ loggedIn
    /\ appTasks = {}
    /\ Len(entries) = 2
    /\ sealed[currentUser[1].email] =
          Some([list |-> entries, password |-> userPassword])
    /\ \E salt, iv \in 0..rng :
          vaultData[currentUser[1].email] =
             Some(encrypt(JSONstringify(entries), userPassword, salt, iv))

\* The envelope as the program sealed it for an account, in the salt and iv
\* of the envelope e.
genuine(email, e) ==
    encrypt(JSONstringify(sealed[email][1].list), sealed[email][1].password,
            e.salt, e.iv)

\* C29: when loadUserEntries opens the stored envelope of an account, decrypt
\* returns a text only if the envelope is as it was sealed and the password
\* is the one it was sealed with, and then the text that was sealed; with
\* another password or a changed ciphertext it fails, in the same way.
C29_OpenAuthenticates ==
    [][\A t \in appTasks :
          (/\ loadUserEntries(t)
           /\ vaultData[t.email] = Some(t.encryptedData)
           /\ sealed[t.email] # None)
          => IF /\ t.encryptedData = genuine(t.email, t.encryptedData)
                /\ t.password = sealed[t.email][1].password
             THEN decrypt(t.encryptedData, t.password) =
                     [ok |-> TRUE,
                      text |-> JSONstringify(sealed[t.email][1].list)]
             ELSE decrypt(t.encryptedData, t.password) =
                     [ok |-> FALSE, text |-> <<>>]]_vars

\* A login with the right password has ended on an envelope whose ciphertext
\* was changed: the list is empty.
C29_TamperedNotOpened ==
    /\ loggedIn
    /\ lastAuth = "login"
    /\ appTasks = {}
    /\ entries = <<>>
    /\ sealed[currentUser[1].email] # None
    /\ sealed[currentUser[1].email][1].password = userPassword
    /\ sealed[currentUser[1].email][1].list # <<>>
    /\ vaultData[currentUser[1].email] # None
    /\ vaultData[currentUser[1].email][1] #
          genuine(currentUser[1].email, vaultData[currentUser[1].email][1])

\* The passwords that the forms of a run can carry.
Candidates == {in[2] : in \in AccountInputs}

\* The password the record of an account was made with at registration.
registeredWith(user) ==
    IF user \in {UserA, UserB} THEN MasterPassword(user.email)
    ELSE IF user.hashedPassword =
               hashPassword(Some("tr0ubadour3"), user.hashedPassword.salt)
         THEN "tr0ubadour3" ELSE "xkcdpassword4"

\* C30: for every record of an account, under whichever salt its hash was
\* made, verifyPassword accepts the password the record was registered with
\* and rejects every other password of the forms; a login ends in the session
\* of the account exactly when it carried the password of the record it read.
C30_VerifyAcceptsOnlyOwnPassword ==
    [][/\ \A e \in DOMAIN users, W \in Candidates :
             verifyPassword(Some(W), users[e].hashedPassword)
                <=> W = registeredWith(users[e])
       /\ \A t \in appTasks :
             handleLoginVerified(t)
             => /\ verifyPassword(t.password, t.user.hashedPassword)
                      <=> t.password = Some(registeredWith(t.user))
                /\ (/\ currentUser' = Some(t.user)
                    /\ userPassword' = t.password)
                      <=> t.password = Some(registeredWith(t.user))]_vars

\* Two accounts were registered in the run with the same password under
\* different salts, and a login into one of them has been verified.
C30_RegisteredAndVerified ==
    /\ {EmailC, EmailD} \subseteq DOMAIN users
    /\ registeredWith(users[EmailC]) = registeredWith(users[EmailD])
    /\ users[EmailC].hashedPassword.salt # users[EmailD].hashedPassword.salt
    /\ currentUser = Some(users[EmailD])
    /\ userPassword = Some(registeredWith(users[EmailD]))
    /\ lastAuth = "login"
    /\ appTasks = {}

\* The alert of handleLogin after verifyPassword has returned.
loginAlert(t) ==
    IF verifyPassword(t.password, t.user.hashedPassword)
    THEN None ELSE Some("Invalid password!")

\* The end of a login that was refused: the handler is gone and nothing
\* else has changed.
refused(t) ==
    /\ appTasks' = appTasks \ {t}
    /\ UNCHANGED <<currentUser, userPassword, entries, editingEntryId, lastAuth,
                   diskVars, clock, rng, chan, bgVars>>

\* C31: verifyPassword returns false for every stored value that is not a
\* hash (not base64, cut short) and for a derivation that fails; the login
\* then ends as one with a wrong password does: the alert of the invalid
\* password, no session, nothing changed.
C31_VerifyNeverRaises ==
    [][/\ \A v \in Malformed, W \in MasterPasswords :
             ~verifyPassword(Some(W), v)
       /\ \A t \in appTasks :
             /\ (handleLoginVerified(t) /\ t.user.hashedPassword \in Malformed)
                   => loginAlert(t) = Some("Invalid password!") /\ refused(t)
             /\ handleLoginVerifyFault(t) => refused(t)]_vars

\* A login with the right password of account B has read a record whose hash
\* was cut short and waits for verifyPassword, after a login into the intact
\* record of account A was verified.
C31_CorruptedRecordRead ==
    /\ currentUser = Some(UserA)
    /\ lastAuth = "login"
    /\ \E t \in appTasks :
          /\ t.kind = "verify"
          /\ t.email = EmailB
          /\ t.password = Some(MasterPassword(EmailB))
          /\ t.user.hashedPassword = Truncated(UserB.hashedPassword)

\* The salt and iv of an envelope or of a save that waits for encrypt.
nonces(e) == <<e.salt, e.iv>>

\* The envelopes in the storage.
stored == {vaultData[e][1] : e \in {a \in DOMAIN vaultData : vaultData[a] # None}}

\* C32: every save draws a salt and an iv that crypto.getRandomValues has
\* not given out before, so the envelope it writes shares its salt and iv
\* with no envelope written earlier and with no save still under way; a save
\* of the text and password of the stored envelope writes a different one.
C32_FreshSaltAndIv ==
    [][/\ rng' >= rng
       /\ \A e \in stored : e.salt < rng /\ e.iv < rng
       /\ \A t \in appTasks' \ appTasks :
             t.kind = "save"
             => /\ t.salt >= rng /\ t.iv >= rng /\ t.salt # t.iv
                /\ t.salt < rng' /\ t.iv < rng'
       /\ \A t \in appTasks :
             saveUserEntriesEncrypted(t)
             => /\ nonces(vaultData'[t.userDataKey][1]) = nonces(t)
                /\ \A e \in stored : nonces(e) # nonces(t)
                /\ \A u \in appTasks \ {t} :
                      u.kind = "save" => nonces(u) # nonces(t)
                /\ vaultData'[t.userDataKey] # vaultData[t.userDataKey]]_vars

\* The list and password of the envelope of the start have been sealed
\* again in the run: the envelope in the storage is another one.
C32_SameTextSealedAgain ==
    /\ sealed[EmailB] = Some([list |-> <<EarlierEntry>>,
                              password |-> Some(MasterPassword(EmailB))])
    /\ vaultData[EmailB] # None
    /\ vaultData[EmailB][1].salt >= 4
    /\ vaultData[EmailB][1] =
          encrypt(JSONstringify(<<EarlierEntry>>), Some(MasterPassword(EmailB)),
                  vaultData[EmailB][1].salt, vaultData[EmailB][1].iv)
    /\ appTasks = {}

\* getPlatformLogo: the address of the image the card of an entry shows.
getPlatformLogo(platform) ==
    [scheme |-> "https", host |-> "logo.clearbit.com",
     path |-> toLowerCase(platform) \o DotCom]

\* renderEntries: the cards of the list become the innerHTML of the page,
\* and the page requests the image of every card.
renderEntries(list) == {getPlatformLogo(list[i].platform) : i \in 1..Len(list)}

\* The lists that differ from a list in the platform of one record only.
otherContents(list) ==
    {[list EXCEPT ![i].platform = capitalizePlatform(p)] :
        i \in 1..Len(list), p \in PlatformInputs \ {<<>>}}

\* C33: the requests the page sends to other hosts when it shows the list do
\* not depend on what the list holds: a list with other platform names in
\* it would cause the same requests.
C33_RequestsIndependentOfVault ==
    [][entries' # entries
       => \A other \in otherContents(entries') :
             renderEntries(other) = renderEntries(entries')]_vars

\* The records of the list that account B held at the start: ids come from
\* Date.now(), which is past 0, so no record made later has this id.
ofAccountB(list) == {i \in 1..Len(list) : list[i].id = EarlierEntry.id}

\* C34: the list of the page holds only records of the current account, and
\* so does every envelope: while the current user is not account B the list
\* has no record of account B, and no record of account B has been sealed
\* into the envelope of another account.
C34_EntriesOfCurrentAccount ==
    /\ (currentUser # None /\ currentUser[1].email # EmailB)
          => ofAccountB(entries) = {}
    /\ \A e \in DOMAIN sealed \ {EmailB} :
          sealed[e] # None => ofAccountB(sealed[e][1].list) = {}

\* The answer is made of a record of account B in the cache of the worker.
servesAccountB(answer) ==
    /\ answer # None
    /\ \E i \in ofAccountB(passwordData) :
          /\ answer[1].platform = passwordData[i].platform
          /\ answer[1].password = passwordData[i].password

\* C35: the worker never serves a record of an account other than the one it
\* reports as logged in: while userEmail is not account B, neither the answer
\* to GET_PASSWORD_DATA nor the AUTOFILL_PASSWORD sent to a tab is made of a
\* record of account B.
C35_ServesOnlyLoggedInAccount ==
    [][\A d \in Hostnames :
          /\ (GET_PASSWORD_DATA(d) /\ userEmail # Some(EmailB))
                => ~servesAccountB(reply'[1].passwordData)
          /\ (REQUEST_AUTOFILL(d) /\ userEmail # Some(EmailB))
                => ~servesAccountB(getPasswordForDomain(d))]_vars

\* C36: the worker reports a login only while the page has a session: once
\* nothing is on its way and no handler is suspended, isUserLoggedIn implies
\* that a login of the page was verified and no logout came after it.
C36_LoggedInOnlyWithSession ==
    (chan = <<>> /\ appTasks = {} /\ bgTasks = {} /\ isUserLoggedIn)
       => (lastAuth = "login" /\ currentUser # None)

\* C37: what an event has set is not overwritten by the restore of the
\* stored state: once the worker has handled a login or logout since it
\* started, the continuation of loadStoredData after the read of userStatus
\* leaves the status and the email as they are, and after a logout the
\* continuation after the read of passwordData leaves the entries as they are.
C37_RestoreKeepsEventState ==
    [][\A t \in bgTasks :
          /\ (loadStoredDataStatus(t) /\ lastEvent # "none")
                => UNCHANGED <<isUserLoggedIn, userEmail>>
          /\ (loadStoredDataData(t) /\ lastEvent = "user_logged_out")
                => UNCHANGED passwordData]_vars

\* C38: once no message is on its way and no handler of the worker is
\* suspended, what the worker has written to its storage is what it holds:
\* the stored userStatus is its status and email, the stored passwordData
\* its entries.
C38_StoredCopyIsMemory ==
    (chan = <<>> /\ bgTasks = {})
       => /\ storedStatus # None
                => storedStatus = Some([isLoggedIn |-> isUserLoggedIn,
                                        email |-> userEmail])
          /\ storedData # None => storedData = Some(passwordData)

\* C39: the worker answers every message it handles: the step that handles
\* a request of a tab or of the popup (a message that is not a notification
\* of a page) has passed a response to sendResponse, also for a
\* REQUEST_AUTOFILL of the popup, and the response is the one of the request;
\* a notification is answered when its writes are done; a message of an
\* unknown type is answered with an error and changes nothing of the worker.
C39_EveryRequestAnswered ==
    [][/\ (ops' = ops + 1 /\ chan' = chan) => reply' # None
       /\ \A d \in Hostnames :
             /\ GET_PASSWORD_DATA(d)
                   => reply' = Some([passwordData |-> getPasswordForDomain(d)])
             /\ REQUEST_AUTOFILL(d) => reply' = Success
       /\ POPUP_REQUEST_STATUS
             => reply' = Some([isLoggedIn |-> isUserLoggedIn,
                               userEmail |-> userEmail,
                               entriesCount |-> Len(passwordData)])
       /\ \A t \in bgTasks : handleVaultUpdateSaved(t) => reply' = Success
       /\ UnknownMessage
             => /\ reply' = Some([error |-> "Unknown message type"])
                /\ UNCHANGED <<isUserLoggedIn, userEmail, passwordData,
                               storedStatus, storedData>>]_vars
====
